---- MODULE Spec2Model ----
(***************************************************************************)
(* Model of jmailer's contacts database handler (src/jmailer/db_handler.py) *)
(*                                                                         *)
(* A pandas DataFrame is a record [columns, rows]: columns is the sequence  *)
(* of column labels (duplicates are possible, as in pandas), rows is the    *)
(* sequence of rows, each a sequence of cell values aligned with columns.   *)
(* A column label is a sequence of tokens (<<"COMPANY", "_new">> is the     *)
(* label COMPANY_new), so that suffixing and the regex substitution of      *)
(* clean_df act on the label's text.  A cell value is a string; NaN is the  *)
(* missing value (pandas NaN / Python None inside a frame).                 *)
(***************************************************************************)
EXTENDS Integers, Sequences, FiniteSets, TLC

VARIABLES
    \* ---- update_dataframe_conditionally: arguments, locals, result ----
    new_df, original_df, merge_columns, fixed_columns, update_columns,
    sort_by, ascending,
    new_data, no_change_data, update_data, updated_df,
    rpc,
    \* ---- details_to_df: argument, loop position, locals, result, log ----
    data, pos, json_data, response_df, df, log, today,
    dpc,
    \* ---- the sink (one worksheet) and the calls made on it ----
    stored, wks_rows, calls,
    \* ---- db_contacts_updater, one frame per run ----
    details, db_configs, upd_original_df, upd_new_data, updated_data, ulog, upc,
    \* ---- write_to_googlesheets, one frame per run ----
    df0, seen_rows, wpc,
    \* ---- jmailer ----
    sender, recipients, test_mode_arg, reduced_recipients, repeated_recipients,
    confirm_exclusions, confirm_send, sent_to, outbox, jlog, db_calls, jpc,
    \* ---- get_details_from_email_list ----
    phonebook, email_list, lookups, lpos, ldetails, llog, lpc,
    \* ---- clean_df called on its own: arguments, result ----
    cl_df, cl_drop_columns, cl_permuted_columns, cl_result, clpc,
    \* ---- Searchers.search_df_rows: arguments, loop position, result ----
    search_df, search_list, spos, filtered_df, spc

rvars == <<new_df, original_df, merge_columns, fixed_columns, update_columns,
           sort_by, ascending, new_data, no_change_data, update_data,
           updated_df, rpc>>
dvars == <<data, pos, json_data, response_df, df, log, today, dpc>>
svars == <<stored, wks_rows, calls>>
uvars == <<details, db_configs, upd_original_df, upd_new_data, updated_data,
           ulog, upc>>
wvars == <<df0, seen_rows, wpc>>
jvars == <<sender, recipients, test_mode_arg, reduced_recipients,
           repeated_recipients, confirm_exclusions, confirm_send, sent_to,
           outbox, jlog, db_calls, jpc>>
lvars == <<phonebook, email_list, lookups, lpos, ldetails, llog, lpc>>
\* everything outside update_dataframe_conditionally and details_to_df
tvars == <<cl_df, cl_drop_columns, cl_permuted_columns, cl_result, clpc,
           search_df, search_list, spos, filtered_df, spc>>
cvars == <<svars, uvars, wvars, jvars, lvars, tvars>>
vars == <<rvars, dvars, svars, uvars, wvars, jvars, lvars, tvars>>

-----------------------------------------------------------------------------
(* Python / pandas values *)

None == [py |-> "None"]
NaN == "NaN"
KeyError == [raised |-> "KeyError"]

isna(v) == v = NaN

IsFrame(x) == DOMAIN x = {"columns", "rows"}

\* Python's ordering of the strings that occur as merge keys or sort keys.
StrOrder == <<"", "2024-01-01", "2024-06-01", "a@x.com", "b@x.com", "c@x.com">>

Rank(s) == CHOOSE i \in 1..Len(StrOrder) : StrOrder[i] = s

\* NaN sorts after every string (pandas na_position = "last").
StrLess(a, b) ==
    IF isna(a) THEN FALSE
    ELSE IF isna(b) THEN TRUE
    ELSE Rank(a) < Rank(b)

RECURSIVE TupleLess(_, _)
TupleLess(a, b) ==
    IF a = <<>> \/ b = <<>> THEN FALSE
    ELSE IF Head(a) = Head(b) THEN TupleLess(Tail(a), Tail(b))
    ELSE StrLess(Head(a), Head(b))

Range(s) == {s[i] : i \in 1..Len(s)}

\* positions (ascending) of the columns labelled c
Positions(columns, c) ==
    SelectSeq([i \in 1..Len(columns) |-> i], LAMBDA i : columns[i] = c)

RECURSIVE Flatten(_)
Flatten(ss) == IF ss = <<>> THEN <<>> ELSE Head(ss) \o Flatten(Tail(ss))

RECURSIVE Dedupe(_)
Dedupe(s) ==
    IF s = <<>> THEN <<>>
    ELSE LET r == Dedupe(SubSeq(s, 1, Len(s) - 1))
             x == s[Len(s)]
         IN IF x \in Range(r) THEN r ELSE Append(r, x)

\* df[cols] : all columns carrying one of the labels, label by label
Getitem(frame, cols) ==
    IF \E i \in 1..Len(cols) : cols[i] \notin Range(frame.columns) THEN KeyError
    ELSE LET idx == Flatten([i \in 1..Len(cols) |-> Positions(frame.columns, cols[i])])
         IN [columns |-> [i \in 1..Len(idx) |-> frame.columns[idx[i]]],
             rows |-> [r \in 1..Len(frame.rows) |->
                          [i \in 1..Len(idx) |-> frame.rows[r][idx[i]]]]]

\* df.drop(columns = cols)
Drop(frame, cols) ==
    IF \E i \in 1..Len(cols) : cols[i] \notin Range(frame.columns) THEN KeyError
    ELSE LET idx == SelectSeq([i \in 1..Len(frame.columns) |-> i],
                              LAMBDA i : frame.columns[i] \notin Range(cols))
         IN [columns |-> [i \in 1..Len(idx) |-> frame.columns[idx[i]]],
             rows |-> [r \in 1..Len(frame.rows) |->
                          [i \in 1..Len(idx) |-> frame.rows[r][idx[i]]]]]

\* "|".join(SUFFIXES): a regular expression that is an alternation of literals
SUFFIXES == <<"_new", "_old">>
Join(alts) == Range(alts)

\* re.sub(pattern, "", label): every occurrence of an alternative is removed
re_sub(pattern, label) == SelectSeq(label, LAMBDA t : t \notin pattern)

\* label + suffix
Suffixed(label, suffix) == Append(label, suffix)

\* the merge-key tuple of a row
KeyOf(columns, row, on) ==
    [j \in 1..Len(on) |-> row[Positions(columns, on[j])[1]]]

\* left.merge(right, how, on, suffixes)
Merge(left, right, how, on, suffixes) ==
    IF \E j \in 1..Len(on) :
          on[j] \notin Range(left.columns) \/ on[j] \notin Range(right.columns)
    THEN KeyError
    ELSE
    LET overlap(c) == /\ c \notin Range(on)
                      /\ c \in Range(left.columns)
                      /\ c \in Range(right.columns)
        lcols == [i \in 1..Len(left.columns) |->
                    IF overlap(left.columns[i])
                    THEN Suffixed(left.columns[i], suffixes[1])
                    ELSE left.columns[i]]
        ridx == SelectSeq([i \in 1..Len(right.columns) |-> i],
                          LAMBDA i : right.columns[i] \notin Range(on))
        rcols == [i \in 1..Len(ridx) |->
                    IF overlap(right.columns[ridx[i]])
                    THEN Suffixed(right.columns[ridx[i]], suffixes[2])
                    ELSE right.columns[ridx[i]]]
        lkey(i) == KeyOf(left.columns, left.rows[i], on)
        rkey(i) == KeyOf(right.columns, right.rows[i], on)
        rrest(j) == [i \in 1..Len(ridx) |-> right.rows[j][ridx[i]]]
        both(i, j) == left.rows[i] \o rrest(j)
        leftonly(i) == left.rows[i] \o [x \in 1..Len(ridx) |-> NaN]
        rightonly(j) ==
            [c \in 1..Len(left.columns) |->
                IF left.columns[c] \in Range(on)
                THEN right.rows[j][Positions(right.columns, left.columns[c])[1]]
                ELSE NaN] \o rrest(j)
        lmatches(k) == SelectSeq([i \in 1..Len(left.rows) |-> i],
                                 LAMBDA i : lkey(i) = k)
        rmatches(k) == SelectSeq([j \in 1..Len(right.rows) |-> j],
                                 LAMBDA j : rkey(j) = k)
        product(k) ==
            Flatten([a \in 1..Len(lmatches(k)) |->
                        [b \in 1..Len(rmatches(k)) |->
                            both(lmatches(k)[a], rmatches(k)[b])]])
        \* inner: the order of the left keys is preserved
        inner == Flatten([i \in 1..Len(left.rows) |->
                            [b \in 1..Len(rmatches(lkey(i))) |->
                                both(i, rmatches(lkey(i))[b])]])
        \* outer: union of the keys, sorted lexicographically
        keys == SortSeq(Dedupe([i \in 1..Len(left.rows) |-> lkey(i)]
                               \o [j \in 1..Len(right.rows) |-> rkey(j)]),
                        TupleLess)
        outerOf(k) ==
            IF lmatches(k) # <<>> /\ rmatches(k) # <<>> THEN product(k)
            ELSE IF lmatches(k) # <<>>
                 THEN [a \in 1..Len(lmatches(k)) |-> leftonly(lmatches(k)[a])]
                 ELSE [b \in 1..Len(rmatches(k)) |-> rightonly(rmatches(k)[b])]
        outer == Flatten([n \in 1..Len(keys) |-> outerOf(keys[n])])
    IN [columns |-> lcols \o rcols,
        rows |-> IF how = "inner" THEN inner ELSE outer]

\* df[df[cols].isna().all(axis=1)]
IsnaAllRows(frame, cols) ==
    IF \E i \in 1..Len(cols) : cols[i] \notin Range(frame.columns) THEN KeyError
    ELSE [columns |-> frame.columns,
          rows |-> SelectSeq(frame.rows,
                      LAMBDA row : \A i \in 1..Len(cols) :
                          \A p \in Range(Positions(frame.columns, cols[i])) :
                              isna(row[p]))]

\* pd.concat(frames) for frames that carry the same column labels
Concat(frames) ==
    [columns |-> frames[1].columns,
     rows |-> Flatten([i \in 1..Len(frames) |-> frames[i].rows])]

\* an optional list argument: None, or List(items)
List(items) == [py |-> "list", items |-> items]

\* DB_handler.clean_df
clean_df(frame, drop_columns, pattern, permuted_columns) ==
    LET dropped == Drop(frame, drop_columns)
    IN IF ~IsFrame(dropped) THEN dropped
       ELSE LET renamed ==
                    [columns |-> [i \in 1..Len(dropped.columns) |->
                                     re_sub(pattern, dropped.columns[i])],
                     rows |-> dropped.rows]
            IN IF permuted_columns # None
               THEN Getitem(renamed, permuted_columns.items)
               ELSE renamed

\* does a row with sort key a go before a row with sort key b ?
RECURSIVE KeyBefore(_, _, _)
KeyBefore(a, b, asc) ==
    IF a = <<>> \/ b = <<>> THEN FALSE
    ELSE IF Head(a) = Head(b) THEN KeyBefore(Tail(a), Tail(b), asc)
    ELSE IF isna(Head(a)) THEN FALSE
    ELSE IF isna(Head(b)) THEN TRUE
    ELSE IF asc THEN Rank(Head(a)) < Rank(Head(b))
    ELSE Rank(Head(a)) > Rank(Head(b))

RECURSIVE InsertSorted(_, _, _, _)
InsertSorted(sorted, row, ps, asc) ==
    IF sorted = <<>> THEN <<row>>
    ELSE IF KeyBefore([i \in 1..Len(ps) |-> row[ps[i]]],
                      [i \in 1..Len(ps) |-> Head(sorted)[ps[i]]], asc)
         THEN <<row>> \o sorted
         ELSE <<Head(sorted)>> \o InsertSorted(Tail(sorted), row, ps, asc)

RECURSIVE SortRows(_, _, _)
SortRows(rows, ps, asc) ==
    IF rows = <<>> THEN <<>>
    ELSE InsertSorted(SortRows(SubSeq(rows, 1, Len(rows) - 1), ps, asc),
                      rows[Len(rows)], ps, asc)

\* df.sort_values(by, ascending = ascending): returns a new, sorted frame
sort_values(frame, by, asc) ==
    IF \E i \in 1..Len(by) : Len(Positions(frame.columns, by[i])) # 1
    THEN KeyError
    ELSE [columns |-> frame.columns,
          rows |-> SortRows(frame.rows,
                            [i \in 1..Len(by) |-> Positions(frame.columns, by[i])[1]],
                            asc)]

\* [col + suffix for col in cols]
WithSuffixForgotten(cols, suffix) == cols

WithSuffix(cols, suffix) == [i \in 1..Len(cols) |-> Suffixed(cols[i], suffix)]

\* line 316: update_columns without the merge columns
DeconflictNothing(update_cols, merge_cols) == update_cols

Deconflict(update_cols, merge_cols) ==
    SelectSeq(update_cols, LAMBDA c : c \notin Range(merge_cols))

\* a statement on a frame is skipped when an earlier statement raised
CleanIfFrame(frame, drop_columns, pattern, original_columns) ==
    IF IsFrame(frame)
    THEN clean_df(frame, drop_columns, pattern, List(original_columns))
    ELSE frame

\* lines 324-326 and 329-331: the rows of merged_df whose drop_columns are
\* all null, cleaned
Bucket(merged_df, drop_columns, pattern, original_columns) ==
    IF IsFrame(merged_df)
    THEN CleanIfFrame(IsnaAllRows(merged_df, drop_columns), drop_columns, pattern,
                      original_columns)
    ELSE merged_df

\* line 337
ConcatBuckets(newd, nochange, upd) ==
    IF ~IsFrame(newd) THEN newd
    ELSE IF ~IsFrame(nochange) THEN nochange
    ELSE IF ~IsFrame(upd) THEN upd
    ELSE Concat(<<newd, nochange, upd>>)

\* lines 338-339: the sorted frame is computed and not assigned; only an
\* exception of sort_values shows
SortDiscarded(concat, sorted) == IF IsFrame(sorted) THEN concat ELSE sorted

\* lines 338-341
Sorted(concat, sortby, asc) ==
    IF IsFrame(concat) /\ sortby # None
    THEN SortDiscarded(concat, sort_values(concat, sortby.items, asc))
    ELSE concat

\* lines 337-341
Returned(newd, nochange, upd, sortby, asc) ==
    [new_data |-> newd,
     no_change_data |-> nochange,
     update_data |-> upd,
     updated_df |-> Sorted(ConcatBuckets(newd, nochange, upd), sortby, asc)]

\* lines 323-341
Buckets(merged_df, inner_df, fixed_cols, update_cols, pattern, original_columns, sortby, asc) ==
    Returned(
        Bucket(merged_df, WithSuffix(fixed_cols \o update_cols, SUFFIXES[2]),
               pattern, original_columns),
        Bucket(merged_df, WithSuffix(fixed_cols \o update_cols, SUFFIXES[1]),
               pattern, original_columns),
        CleanIfFrame(inner_df,
                     WithSuffix(fixed_cols, SUFFIXES[1])
                        \o WithSuffix(update_cols, SUFFIXES[2]),
                     pattern, original_columns),
        sortby, asc)

\* DB_handler.update_dataframe_conditionally: the three buckets and the
\* returned value (updated_df); a raised exception stands in the place of a
\* frame.
update_dataframe_conditionally(new, orig, merge_cols, fixed_cols, update_cols, sortby, asc) ==
    Buckets(Merge(new, orig, "outer", merge_cols, SUFFIXES),
            Merge(new, orig, "inner", merge_cols, SUFFIXES),
            fixed_cols, Deconflict(update_cols, merge_cols),
            Join(SUFFIXES), orig.columns, sortby, asc)

-----------------------------------------------------------------------------
(* Reconciliation of two tables: the inputs *)

EMAIL == <<"EMAIL">>
LAST_OUTREACH == <<"LAST_OUTREACH">>
FIRST_OUTREACH == <<"FIRST_OUTREACH">>

MaxRows == 2

Emails == {"a@x.com", "b@x.com"}
FirstOutreachValues == {NaN, "2024-01-01"}
OldLastOutreachValues == {NaN, "2024-01-01"}
NewLastOutreachValues == {NaN, "2024-01-01", "2024-06-01"}

Schema == <<EMAIL, LAST_OUTREACH, FIRST_OUTREACH>>

\* tables of at most MaxRows rows over Schema, the EMAIL unique in the table
Tables(last_values) ==
    {[columns |-> Schema, rows |-> rs] :
        rs \in {r \in UNION {[1..n -> Emails \X last_values \X FirstOutreachValues] :
                              n \in 0..MaxRows} :
                    \A i, j \in 1..Len(r) : r[i][1] = r[j][1] => i = j}}

\* the column configurations (db_config.yaml) and sort arguments
Configs ==
    {[merge |-> <<EMAIL>>, fixed |-> <<FIRST_OUTREACH>>, update |-> <<LAST_OUTREACH>>,
      sort_by |-> List(<<LAST_OUTREACH>>), ascending |-> FALSE],
     [merge |-> <<EMAIL>>, fixed |-> <<FIRST_OUTREACH>>, update |-> <<LAST_OUTREACH>>,
      sort_by |-> List(<<LAST_OUTREACH>>), ascending |-> TRUE],
     [merge |-> <<EMAIL>>, fixed |-> <<FIRST_OUTREACH>>, update |-> <<LAST_OUTREACH, EMAIL>>,
      sort_by |-> None, ascending |-> FALSE],
     [merge |-> <<EMAIL>>, fixed |-> <<FIRST_OUTREACH>>, update |-> <<>>,
      sort_by |-> None, ascending |-> FALSE]}

DetailsIdle ==
    /\ data = <<>> /\ pos = 0 /\ json_data = <<>>
    /\ response_df = None /\ df = None /\ log = <<>> /\ today = 1
    /\ dpc = "idle"

ReconcileIdle ==
    /\ new_df = None /\ original_df = None
    /\ merge_columns = <<>> /\ fixed_columns = <<>> /\ update_columns = <<>>
    /\ sort_by = None /\ ascending = FALSE
    /\ new_data = None /\ no_change_data = None /\ update_data = None
    /\ updated_df = None
    /\ rpc = "idle"

\* the two runs of the tool that may work on the sink at the same time
Runs == {1, 2}

\* a worksheet without any value
EmptySheet == [columns |-> <<>>, rows |-> <<>>]

SinkIdle == stored = EmptySheet /\ wks_rows = 1 /\ calls = <<>>

UpdaterIdle ==
    /\ details = [r \in Runs |-> <<>>]
    /\ db_configs = None
    /\ upd_original_df = [r \in Runs |-> None]
    /\ upd_new_data = [r \in Runs |-> None]
    /\ updated_data = [r \in Runs |-> None]
    /\ ulog = <<>>
    /\ upc = [r \in Runs |-> "idle"]

WriteIdle ==
    /\ df0 = [r \in Runs |-> None]
    /\ seen_rows = [r \in Runs |-> 0]
    /\ wpc = [r \in Runs |-> "idle"]

JmailerIdle ==
    /\ sender = "" /\ recipients = <<>> /\ test_mode_arg = "None"
    /\ reduced_recipients = <<>> /\ repeated_recipients = <<>>
    /\ confirm_exclusions = "" /\ confirm_send = ""
    /\ sent_to = 0 /\ outbox = <<>> /\ jlog = <<>> /\ db_calls = 0
    /\ jpc = "idle"

LookupIdle ==
    /\ phonebook = "" /\ email_list = <<>> /\ lookups = <<>> /\ lpos = 0
    /\ ldetails = <<>> /\ llog = <<>> /\ lpc = "idle"

ToolsIdle ==
    /\ cl_df = None /\ cl_drop_columns = <<>> /\ cl_permuted_columns = None
    /\ cl_result = None /\ clpc = "idle"
    /\ search_df = None /\ search_list = <<>> /\ spos = 0
    /\ filtered_df = None /\ spc = "idle"

CallersIdle ==
    SinkIdle /\ UpdaterIdle /\ WriteIdle /\ JmailerIdle /\ LookupIdle /\ ToolsIdle

InitReconcile ==
    /\ new_df \in Tables(NewLastOutreachValues)
    /\ original_df \in Tables(OldLastOutreachValues)
    /\ \E c \in Configs :
        /\ merge_columns = c.merge
        /\ fixed_columns = c.fixed
        /\ update_columns = c.update
        /\ sort_by = c.sort_by
        /\ ascending = c.ascending
    /\ new_data = None /\ no_change_data = None /\ update_data = None
    /\ updated_df = None
    /\ rpc = "call"
    /\ DetailsIdle
    /\ CallersIdle

\* one call of update_dataframe_conditionally
Reconcile ==
    /\ rpc = "call"
    /\ LET r == update_dataframe_conditionally(new_df, original_df, merge_columns,
                    fixed_columns, update_columns, sort_by, ascending)
       IN /\ new_data' = r.new_data
          /\ no_change_data' = r.no_change_data
          /\ update_data' = r.update_data
          /\ updated_df' = r.updated_df
    /\ rpc' = "done"
    /\ UNCHANGED <<new_df, original_df, merge_columns, fixed_columns,
                   update_columns, sort_by, ascending>>
    /\ UNCHANGED <<dvars, cvars>>

NextReconcile == Reconcile

SpecReconcile == InitReconcile /\ [][NextReconcile]_vars

-----------------------------------------------------------------------------
(* details_to_df: the record normalizer *)

MaxEntries == 2
MaxDay == 2

\* the calendar day of the clock value t, as datetime.today() reports it
Year(t) == "2026"
Month(t) == "11"
Day(t) == "0" \o ToString(t)

\* one directive or literal of a strftime format
Directive(t, d) ==
    IF d = "%Y" THEN Year(t)
    ELSE IF d = "%m" THEN Month(t)
    ELSE IF d = "%d" THEN Day(t)
    ELSE d

RECURSIVE strftime(_, _)
strftime(t, format) ==
    IF format = <<>> THEN ""
    ELSE Directive(t, Head(format)) \o strftime(t, Tail(format))

\* the format strings of lines 237, 242 and 243
FormatCreated == <<"%Y", "-", "%m", "-", "%d">>
FormatLast == <<"%Y", "-", "%m", "-", "%d">>
FormatFirst == <<"Y", "-", "%m", "-", "%d">>

\* a detail: a dict of some of the three fields, or a value without .get
DetailFields == {"first_name", "last_name", "company_name"}
Dict(items) == [py |-> "dict", items |-> items]
Str(value) == [py |-> "str", value |-> value]

FieldValue(f) ==
    IF f = "first_name" THEN "Ann"
    ELSE IF f = "last_name" THEN "Lee"
    ELSE "Acme"

WellFormedDetails == {Dict([f \in fs |-> FieldValue(f)]) : fs \in SUBSET DetailFields}
Details == WellFormedDetails \cup {None, Str("n/a")}

\* except Exception (line 245): the exceptions the handler catches
CaughtKeyErrorOnly(e) == e = "KeyError"

Caught(e) == e \in {"AttributeError", "KeyError", "TypeError", "ValueError"}

\* detail.get(name, default); AttributeError when detail is not a dict
HasGet(detail) == detail.py = "dict"
Get(detail, name, default) ==
    IF name \in DOMAIN detail.items THEN detail.items[name] ELSE default

DetailKeys == {"a@x.com", "b@x.com", "c@x.com"}

\* data.items(): the entries of a dict in insertion order, the keys distinct
DataDicts ==
    {d \in UNION {[1..n -> DetailKeys \X Details] : n \in 0..MaxEntries} :
        \A i, j \in 1..Len(d) : d[i][1] = d[j][1] => i = j}

RecordColumns ==
    <<<<"CREATEDATETIME">>, <<"FIRST_NAME">>, <<"LAST_NAME">>, EMAIL,
      <<"COMPANY">>, LAST_OUTREACH, FIRST_OUTREACH>>

\* the dict literal of lines 236-244, the clock read at t1, t2 and t3
ContactRecord(key, detail, t1, t2, t3) ==
    [CREATEDATETIME |-> strftime(t1, FormatCreated),
     FIRST_NAME |-> Get(detail, "first_name", ""),
     LAST_NAME |-> Get(detail, "last_name", ""),
     EMAIL |-> key,
     COMPANY |-> Get(detail, "company_name", ""),
     LAST_OUTREACH |-> strftime(t2, FormatLast),
     FIRST_OUTREACH |-> strftime(t3, FormatFirst)]

\* pd.DataFrame.from_dict(json_data, orient="index") and reset_index
from_dict(records) ==
    [columns |-> RecordColumns,
     rows |-> [i \in 1..Len(records) |->
                <<records[i].CREATEDATETIME, records[i].FIRST_NAME,
                  records[i].LAST_NAME, records[i].EMAIL, records[i].COMPANY,
                  records[i].LAST_OUTREACH, records[i].FIRST_OUTREACH>>]]

\* json_data[key] = record
SetItem(records, key, record) ==
    IF \E i \in 1..Len(records) : records[i].EMAIL = key
    THEN [i \in 1..Len(records) |->
            IF records[i].EMAIL = key THEN record ELSE records[i]]
    ELSE Append(records, record)

InitDetails ==
    /\ data \in DataDicts
    /\ pos = 0
    /\ json_data = <<>>
    /\ response_df = None
    /\ df = None
    /\ log = <<>>
    /\ today \in 1..MaxDay
    /\ dpc = "loop"
    /\ ReconcileIdle
    /\ CallersIdle

\* one iteration of the loop of lines 234-247 on a well-formed detail
DetailsEntry ==
    /\ dpc = "loop"
    /\ pos < Len(data)
    /\ LET key == data[pos + 1][1]
           detail == data[pos + 1][2]
       IN /\ HasGet(detail)
          /\ \E t1, t2, t3 \in today..MaxDay :
                /\ t1 <= t2 /\ t2 <= t3
                /\ json_data' = SetItem(json_data, key,
                                        ContactRecord(key, detail, t1, t2, t3))
                /\ today' = t3
    /\ pos' = pos + 1
    /\ UNCHANGED <<data, response_df, df, log, dpc>>
    /\ UNCHANGED <<rvars, cvars>>

\* one iteration on a detail without .get: the AttributeError is raised after
\* the first clock read; caught, it is logged and the entry is skipped
DetailsEntryFails ==
    /\ dpc = "loop"
    /\ pos < Len(data)
    /\ LET key == data[pos + 1][1]
           detail == data[pos + 1][2]
           e == "AttributeError"
       IN /\ ~HasGet(detail)
          /\ IF Caught(e)
             THEN /\ log' = Append(log, [msg |-> "No response recorded for",
                                         key |-> key, e |-> e])
                  /\ pos' = pos + 1
                  /\ dpc' = dpc
             ELSE /\ dpc' = "raised"
                  /\ UNCHANGED <<log, pos>>
    /\ \E t1 \in today..MaxDay : today' = t1
    /\ UNCHANGED <<data, json_data, response_df, df>>
    /\ UNCHANGED <<rvars, cvars>>

\* lines 249-252: the frame is built into response_df, df is returned
DetailsReturn ==
    /\ dpc = "loop"
    /\ pos = Len(data)
    /\ response_df' = IF Len(json_data) > 0 THEN from_dict(json_data) ELSE response_df
    /\ dpc' = "done"
    /\ UNCHANGED <<data, pos, json_data, df, log, today>>
    /\ UNCHANGED <<rvars, cvars>>

NextDetails == DetailsEntry \/ DetailsEntryFails \/ DetailsReturn

SpecDetails == InitDetails /\ [][NextDetails]_vars

-----------------------------------------------------------------------------
(* The sink: one worksheet, read with get_as_df and written by               *)
(* Google.write_to_googlesheets                                              *)

MaxCapacity == 3
MaxWriteRows == 3
MaxBatch == 1

AttributeError == [raised |-> "AttributeError"]

\* one call made on the worksheet
Call(op, r) == [op |-> op, run |-> r]

\* the calls of run r, in the order they were made
CallsOf(r) == SelectSeq(calls, LAMBDA c : c.run = r)
OpsOf(r) == [i \in 1..Len(CallsOf(r)) |-> CallsOf(r)[i].op]

\* wks.get_as_df(): the first row as the column labels, the rows below it
get_as_df(sheet) == [columns |-> sheet.columns, rows |-> sheet.rows]

StoredRow ==
    <<"2024-01-01", "Ann", "Lee", "a@x.com", "Acme", "2024-01-01", "2024-01-01">>

\* what the worksheet may hold before a run: nothing, the header alone, one
\* contact, or a table without the FIRST_OUTREACH column
StoredTables ==
    {EmptySheet,
     [columns |-> RecordColumns, rows |-> <<>>],
     [columns |-> RecordColumns, rows |-> <<StoredRow>>],
     Drop([columns |-> RecordColumns, rows |-> <<StoredRow>>], <<FIRST_OUTREACH>>)}

\* the frames handed to write_to_googlesheets when it is called directly
WriteFrames ==
    {[columns |-> Schema,
      rows |-> [i \in 1..n |-> <<ToString(i) \o "@x.com", "2024-06-01", "2024-06-01">>]] :
        n \in 0..MaxWriteRows}

\* line 141: wks.rows < len(df0)
NeedsResizeOrEqual(capacity, n) == capacity <= n

NeedsResize(capacity, n) == capacity < n

\* set_dataframe(copy_head=True) writes the header row and the data rows
Fits(n, capacity) == n + 1 <= capacity

\* the outcomes of set_dataframe: written, or refused by the sheets service
\* when the values exceed the grid
SetOutcomes(n, capacity) ==
    IF Fits(n, capacity) THEN {"written"} ELSE {"written", "raised"}

Max(a, b) == IF a < b THEN b ELSE a

\* the caller of write_to_googlesheets resumes: db_contacts_updater returns
\* (line 387) or the exception propagates
Resume(pc, r, outcome) ==
    [pc EXCEPT ![r] = IF @ = "write"
                      THEN (IF outcome = "written" THEN "done" ELSE "raised")
                      ELSE @]

\* lines 134-139
WriteClear(r) ==
    /\ wpc[r] = "clear"
    /\ stored' = EmptySheet
    /\ calls' = Append(calls, Call("clear", r))
    /\ wpc' = [wpc EXCEPT ![r] = "resize"]
    /\ UNCHANGED <<wks_rows, df0, seen_rows>>
    /\ UNCHANGED <<rvars, dvars, uvars, jvars, lvars, tvars>>

\* lines 141-146
WriteResize(r) ==
    /\ wpc[r] = "resize"
    /\ seen_rows' = [seen_rows EXCEPT ![r] = wks_rows]
    /\ IF NeedsResize(wks_rows, Len(df0[r].rows))
       THEN /\ wks_rows' = Len(df0[r].rows)
            /\ calls' = Append(calls, Call("resize", r))
       ELSE UNCHANGED <<wks_rows, calls>>
    /\ wpc' = [wpc EXCEPT ![r] = "set"]
    /\ UNCHANGED <<stored, df0>>
    /\ UNCHANGED <<rvars, dvars, uvars, jvars, lvars, tvars>>

\* lines 148-152
WriteSetDataframe(r) ==
    /\ wpc[r] = "set"
    /\ calls' = Append(calls, Call("set_dataframe", r))
    /\ \E outcome \in SetOutcomes(Len(df0[r].rows), wks_rows) :
          /\ IF outcome = "written"
             THEN /\ stored' = df0[r]
                  /\ wks_rows' = Max(wks_rows, Len(df0[r].rows) + 1)
                  /\ wpc' = [wpc EXCEPT ![r] = "done"]
             ELSE /\ wpc' = [wpc EXCEPT ![r] = "raised"]
                  /\ UNCHANGED <<stored, wks_rows>>
          /\ upc' = Resume(upc, r, outcome)
    /\ UNCHANGED <<df0, seen_rows>>
    /\ UNCHANGED <<details, db_configs, upd_original_df, upd_new_data,
                   updated_data, ulog>>
    /\ UNCHANGED <<rvars, dvars, jvars, lvars, tvars>>

-----------------------------------------------------------------------------
(* db_contacts_updater *)

\* details_to_df as one step of its caller (lines 232-252), the clock at t:
\* the records of the entries that do not fail
RECURSIVE Records(_, _)
Records(d, t) ==
    IF d = <<>> THEN <<>>
    ELSE IF HasGet(d[Len(d)][2])
         THEN SetItem(Records(SubSeq(d, 1, Len(d) - 1), t), d[Len(d)][1],
                      ContactRecord(d[Len(d)][1], d[Len(d)][2], t, t, t))
         ELSE Records(SubSeq(d, 1, Len(d) - 1), t)

\* lines 249-251
ResponseDf(records) == IF Len(records) > 0 THEN from_dict(records) ELSE None

\* line 252: of the two locals df (line 232) and response_df, df is returned
ReturnOf(dfl, response) == dfl

details_to_df(d, t) == ReturnOf(None, ResponseDf(Records(d, t)))

\* line 381: not new_data is None
IsNone(x) == x = None

NotNone(x) == x # None

\* line 382: new_df.merge raises AttributeError on a value that is no frame
Reconciliation(new, orig, c) ==
    IF ~IsFrame(new) \/ ~IsFrame(orig) THEN AttributeError
    ELSE update_dataframe_conditionally(new, orig, c.merge, c.fixed, c.update,
                                        c.sort_by, FALSE).updated_df

\* the details handed to db_contacts_updater
BatchKeys == {"b@x.com", "c@x.com"}
BatchDetails == {Dict([f \in DetailFields |-> FieldValue(f)]), None}
Batches ==
    {d \in UNION {[1..n -> BatchKeys \X BatchDetails] : n \in 0..MaxBatch} :
        \A i, j \in 1..Len(d) : d[i][1] = d[j][1] => i = j}

\* lines 366-378: the configuration is loaded, the table is read
UpdaterRead(r) ==
    /\ upc[r] = "call"
    /\ upd_original_df' = [upd_original_df EXCEPT ![r] = get_as_df(stored)]
    /\ calls' = Append(calls, Call("get_as_df", r))
    /\ upc' = [upc EXCEPT ![r] = "normalize"]
    /\ UNCHANGED <<stored, wks_rows>>
    /\ UNCHANGED <<details, db_configs, upd_new_data, updated_data, ulog>>
    /\ UNCHANGED <<rvars, dvars, wvars, jvars, lvars, tvars>>

\* line 382 and the call of line 383
UpdaterReconcile(r, new) ==
    /\ updated_data' = [updated_data EXCEPT
                          ![r] = Reconciliation(new, upd_original_df[r], db_configs)]
    /\ IF IsFrame(updated_data'[r])
       THEN /\ df0' = [df0 EXCEPT ![r] = updated_data'[r]]
            /\ wpc' = [wpc EXCEPT ![r] = "clear"]
            /\ upc' = [upc EXCEPT ![r] = "write"]
       ELSE /\ upc' = [upc EXCEPT ![r] = "raised"]
            /\ UNCHANGED <<df0, wpc>>
    /\ UNCHANGED ulog

\* lines 384-387
UpdaterNoData(r) ==
    /\ ulog' = Append(ulog, [run |-> r, msg |-> "No new data to update!"])
    /\ upc' = [upc EXCEPT ![r] = "done"]
    /\ UNCHANGED <<updated_data, df0, wpc>>

\* lines 380-387
UpdaterUpdate(r) ==
    /\ upc[r] = "normalize"
    /\ upd_new_data' = [upd_new_data EXCEPT ![r] = details_to_df(details[r], today)]
    /\ IF NotNone(upd_new_data'[r])
       THEN UpdaterReconcile(r, upd_new_data'[r])
       ELSE UpdaterNoData(r)
    /\ UNCHANGED <<details, db_configs, upd_original_df, seen_rows>>
    /\ UNCHANGED <<rvars, dvars, svars, jvars, lvars, tvars>>

\* the columns a table handed to update_dataframe_conditionally may carry
ColumnSets ==
    {Schema, <<EMAIL, LAST_OUTREACH>>, <<EMAIL, FIRST_OUTREACH>>, <<EMAIL>>,
     <<LAST_OUTREACH, FIRST_OUTREACH>>, <<>>}

\* tables of at most one row over a part of the schema
PartialTables ==
    {Getitem([columns |-> Schema, rows |-> rs], cols) :
        rs \in {<<>>} \cup {<<<<"a@x.com", l, f>>>> :
                              l \in {NaN, "2024-06-01"}, f \in {NaN, "2024-01-01"}},
        cols \in ColumnSets}

\* db_contacts_updater is called by one run or by both
InitUpdater ==
    /\ upc \in [Runs -> {"call", "idle"}] \ {[r \in Runs |-> "idle"]}
    /\ details \in [Runs -> Batches]
    /\ \A r \in Runs : upc[r] = "idle" => details[r] = <<>>
    /\ db_configs \in Configs
    /\ upd_original_df = [r \in Runs |-> None]
    /\ upd_new_data = [r \in Runs |-> None]
    /\ updated_data = [r \in Runs |-> None]
    /\ ulog = <<>>
    /\ WriteIdle
    /\ ReconcileIdle

\* write_to_googlesheets is called by one run or by both
InitWrite ==
    /\ wpc \in [Runs -> {"clear", "idle"}] \ {[r \in Runs |-> "idle"]}
    /\ df0 \in [Runs -> WriteFrames \cup {None}]
    /\ \A r \in Runs : wpc[r] = "idle" <=> df0[r] = None
    /\ seen_rows = [r \in Runs |-> 0]
    /\ UpdaterIdle
    /\ ReconcileIdle

\* update_dataframe_conditionally is called on tables that may lack columns
InitPartial ==
    /\ new_df \in PartialTables
    /\ original_df \in PartialTables
    /\ \E c \in Configs :
        /\ merge_columns = c.merge
        /\ fixed_columns = c.fixed
        /\ update_columns = c.update
        /\ sort_by = c.sort_by
        /\ ascending = c.ascending
    /\ new_data = None /\ no_change_data = None /\ update_data = None
    /\ updated_df = None
    /\ rpc = "call"
    /\ UpdaterIdle
    /\ WriteIdle

SinkStates == stored \in StoredTables /\ wks_rows \in 1..MaxCapacity

InitSink ==
    /\ calls = <<>>
    /\ \/ InitUpdater /\ SinkStates
       \/ InitWrite /\ SinkStates
       \/ InitPartial /\ stored = EmptySheet /\ wks_rows = 1
    /\ DetailsIdle
    /\ JmailerIdle
    /\ LookupIdle
    /\ ToolsIdle

NextSink ==
    \/ \E r \in Runs : UpdaterRead(r)
    \/ \E r \in Runs : UpdaterUpdate(r)
    \/ \E r \in Runs : WriteClear(r)
    \/ \E r \in Runs : WriteResize(r)
    \/ \E r \in Runs : WriteSetDataframe(r)
    \/ Reconcile

SpecSink == InitSink /\ [][NextSink]_vars

-----------------------------------------------------------------------------
(* jmailer: cross-check, confirmation, sending, database update              *)
(* (src/jmailer/__main__.py)                                                 *)

MaxRecipients == 2

Sender == "s@x.com"
Addresses == {"a@x.com", "b@x.com", Sender}

\* --test_mode as given on the command line ("None": not given)
TestModeArgs == {"Y", "y", "None"}

\* lines 360-364
test_mode == test_mode_arg = "Y"

\* original_df["EMAIL"].to_list()
existing_emails(frame) ==
    [i \in 1..Len(frame.rows) |-> frame.rows[i][Positions(frame.columns, EMAIL)[1]]]

\* line 214
reduced_all(recips, existing) == recips

reduced_of(recips, existing) ==
    SelectSeq(recips, LAMBDA col : col \notin Range(existing))

\* line 215
repeated_of(recips, existing) ==
    SelectSeq(recips, LAMBDA col : col \in Range(existing))

\* send_email, lines 305-309: the recipients handed to sendmail
EnvelopeIgnoringTestMode(mode, from, recips) == recips

Envelope(mode, from, recips) == IF mode THEN <<from>> ELSE recips

\* the parameters of db_contacts_updater besides self (db_handler.py 346-349)
\* and the arguments of the call in jmailer (lines 432-436)
Parameters == <<"credentials_path", "db_identifier", "table", "details">>
Arguments ==
    <<"credentials_path", "clearbit_api_key", "db_identifier", "db_table",
      "recipients">>

\* binding positional arguments: more arguments than parameters is a
\* TypeError raised before the body runs
CallException(params, args) ==
    IF Len(args) > Len(params) THEN "TypeError" ELSE "None"

\* except Exception (line 438)
CaughtByJmailerKeyErrorOnly(e) == e = "KeyError"

CaughtByJmailer(e) ==
    e \in {"AttributeError", "KeyError", "TypeError", "ValueError"}

InitJmailer ==
    /\ sender = Sender
    /\ recipients \in UNION {[1..n -> Addresses] : n \in 1..MaxRecipients}
    /\ test_mode_arg \in TestModeArgs
    /\ reduced_recipients = <<>> /\ repeated_recipients = <<>>
    /\ confirm_exclusions = "" /\ confirm_send = ""
    /\ sent_to = 0 /\ outbox = <<>> /\ jlog = <<>> /\ db_calls = 0
    /\ jpc = "cross_check"
    /\ stored \in StoredTables
    /\ wks_rows = MaxCapacity
    /\ calls = <<>>
    /\ UpdaterIdle /\ WriteIdle /\ ReconcileIdle /\ DetailsIdle /\ LookupIdle
    /\ ToolsIdle

\* lines 404-406 (cross_check_emails, db_handler.py 203-216); a table
\* without the EMAIL column raises KeyError, which nothing catches
JCrossCheck ==
    /\ jpc = "cross_check"
    /\ calls' = Append(calls, Call("get_as_df", 1))
    /\ IF EMAIL \in Range(get_as_df(stored).columns)
       THEN /\ reduced_recipients' =
                  reduced_of(recipients, existing_emails(get_as_df(stored)))
            /\ repeated_recipients' =
                  repeated_of(recipients, existing_emails(get_as_df(stored)))
            /\ jpc' = "exclude"
       ELSE /\ jpc' = "crashed"
            /\ UNCHANGED <<reduced_recipients, repeated_recipients>>
    /\ UNCHANGED <<sender, recipients, test_mode_arg, confirm_exclusions,
                   confirm_send, sent_to, outbox, jlog, db_calls>>
    /\ UNCHANGED <<stored, wks_rows>>
    /\ UNCHANGED <<rvars, dvars, uvars, wvars, lvars, tvars>>

\* lines 408-414
JExclude ==
    /\ jpc = "exclude"
    /\ IF Len(repeated_recipients) # 0
       THEN /\ jlog' = Append(jlog, [msg |-> "Found emails already in the database.",
                                     e |-> "None"])
            /\ \E answer \in {"y", "n"} :
                  /\ confirm_exclusions' = answer
                  /\ recipients' = IF answer = "y" THEN reduced_recipients
                                   ELSE recipients
       ELSE UNCHANGED <<jlog, confirm_exclusions, recipients>>
    /\ jpc' = "confirm"
    /\ UNCHANGED <<sender, test_mode_arg, reduced_recipients, repeated_recipients,
                   confirm_send, sent_to, outbox, db_calls>>
    /\ UNCHANGED <<rvars, dvars, svars, uvars, wvars, lvars, tvars>>

\* lines 419-424
JConfirm ==
    /\ jpc = "confirm"
    /\ \E answer \in {"y", "n"} :
          /\ confirm_send' = answer
          /\ IF answer = "y"
             THEN /\ jpc' = "send"
                  /\ UNCHANGED jlog
             ELSE /\ jlog' = Append(jlog, [msg |-> "Messages not sent!", e |-> "None"])
                  /\ jpc' = "db"
    /\ UNCHANGED <<sender, recipients, test_mode_arg, reduced_recipients,
                   repeated_recipients, confirm_exclusions, sent_to, outbox,
                   db_calls>>
    /\ UNCHANGED <<rvars, dvars, svars, uvars, wvars, lvars, tvars>>

\* one iteration of send_emails (lines 332-334): send_email on [recipient]
JSendEmail ==
    /\ jpc = "send"
    /\ sent_to < Len(recipients)
    /\ outbox' = Append(outbox,
                        [from |-> sender,
                         to |-> Envelope(test_mode, sender, <<recipients[sent_to + 1]>>),
                         header |-> <<recipients[sent_to + 1]>>])
    /\ sent_to' = sent_to + 1
    /\ UNCHANGED <<sender, recipients, test_mode_arg, reduced_recipients,
                   repeated_recipients, confirm_exclusions, confirm_send, jlog,
                   db_calls, jpc>>
    /\ UNCHANGED <<rvars, dvars, svars, uvars, wvars, lvars, tvars>>

\* line 335
JSendDone ==
    /\ jpc = "send"
    /\ sent_to = Len(recipients)
    /\ jpc' = "db"
    /\ UNCHANGED <<sender, recipients, test_mode_arg, reduced_recipients,
                   repeated_recipients, confirm_exclusions, confirm_send, sent_to,
                   outbox, jlog, db_calls>>
    /\ UNCHANGED <<rvars, dvars, svars, uvars, wvars, lvars, tvars>>

\* lines 431-440: the call of db_contacts_updater inside the try
JCallUpdater(e) ==
    /\ db_calls' = db_calls + 1
    /\ IF e = "None"
       THEN /\ jlog' = Append(jlog, [msg |-> "Updating database.", e |-> "None"])
            /\ jpc' = "end"
       ELSE IF CaughtByJmailer(e)
       THEN /\ jlog' = jlog \o <<[msg |-> "Updating database.", e |-> "None"],
                                 [msg |-> "Something went wrong with writing to the db. ",
                                  e |-> e]>>
            /\ jpc' = "end"
       ELSE /\ jlog' = Append(jlog, [msg |-> "Updating database.", e |-> "None"])
            /\ jpc' = "crashed"

\* line 427: confirm_send=="y" and not test_mode
ShouldUpdateAlways(confirm, mode) == TRUE

ShouldUpdate(confirm, mode) == confirm = "y" /\ ~mode

\* lines 426-444
JDbUpdate ==
    /\ jpc = "db"
    /\ IF ShouldUpdate(confirm_send, test_mode)
       THEN JCallUpdater(CallException(Parameters, Arguments))
       ELSE /\ jlog' = Append(jlog, [msg |-> "Database not updated.", e |-> "None"])
            /\ jpc' = "end"
            /\ UNCHANGED db_calls
    /\ UNCHANGED <<sender, recipients, test_mode_arg, reduced_recipients,
                   repeated_recipients, confirm_exclusions, confirm_send, sent_to,
                   outbox>>
    /\ UNCHANGED <<rvars, dvars, svars, uvars, wvars, lvars, tvars>>

NextJmailer ==
    JCrossCheck \/ JExclude \/ JConfirm \/ JSendEmail \/ JSendDone \/ JDbUpdate

SpecJmailer == InitJmailer /\ [][NextJmailer]_vars

-----------------------------------------------------------------------------
(* get_details_from_email_list of PeopleDataLabs and of LocalPhoneBook       *)
(* (src/jmailer/phonebooks.py)                                               *)

MaxEmails == 2

PhoneBooks == {"PeopleDataLabs", "LocalPhoneBook"}

\* what the lookup of one email meets: a record; a request that fails
\* (requests.get raises); a response that is no JSON or a record whose names
\* cannot be formatted; no record for the email
Outcomes(book) ==
    IF book = "PeopleDataLabs"
    THEN {"found", "request_fails", "unparseable", "no_match"}
    ELSE {"found", "unparseable", "no_match"}

\* the exception an outcome raises, and where
ExceptionOf(book, outcome) ==
    IF outcome = "request_fails" THEN "ConnectionError"
    ELSE IF outcome = "unparseable" THEN "TypeError"
    ELSE IF book = "PeopleDataLabs" THEN "KeyError"
    ELSE "IndexError"

\* lines 174 and 230 stand before the try of lines 175 and 231
InTry(outcome) == outcome # "request_fails"

FoundDetail == Dict([f \in DetailFields |-> FieldValue(f)])

\* details[email] = detail
SetDetail(dict, email, detail) ==
    IF \E i \in 1..Len(dict) : dict[i][1] = email
    THEN [i \in 1..Len(dict) |-> IF dict[i][1] = email THEN <<email, detail>> ELSE dict[i]]
    ELSE Append(dict, <<email, detail>>)

InitLookup ==
    /\ phonebook \in PhoneBooks
    /\ email_list \in UNION {[1..n -> {"a@x.com", "b@x.com"}] : n \in 0..MaxEmails}
    /\ lookups \in [1..Len(email_list) -> Outcomes(phonebook)]
    /\ lpos = 0
    /\ ldetails = <<>>
    /\ llog = <<>>
    /\ lpc = "loop"
    /\ SinkIdle /\ UpdaterIdle /\ WriteIdle /\ ReconcileIdle /\ DetailsIdle
    /\ JmailerIdle
    /\ ToolsIdle

\* one iteration of the loop (lines 169-179, 229-235)
LookupEmail ==
    /\ lpc = "loop"
    /\ lpos < Len(email_list)
    /\ IF lookups[lpos + 1] = "found"
       THEN /\ ldetails' = SetDetail(ldetails, email_list[lpos + 1], FoundDetail)
            /\ lpos' = lpos + 1
            /\ UNCHANGED <<llog, lpc>>
       ELSE IF InTry(lookups[lpos + 1])
       THEN /\ llog' = Append(llog, [email |-> email_list[lpos + 1],
                                     e |-> ExceptionOf(phonebook, lookups[lpos + 1])])
            /\ lpos' = lpos + 1
            /\ UNCHANGED <<ldetails, lpc>>
       ELSE /\ lpc' = "raised"
            /\ UNCHANGED <<ldetails, llog, lpos>>
    /\ UNCHANGED <<phonebook, email_list, lookups>>
    /\ UNCHANGED <<rvars, dvars, svars, uvars, wvars, jvars, tvars>>

\* lines 180 and 236
LookupReturn ==
    /\ lpc = "loop"
    /\ lpos = Len(email_list)
    /\ lpc' = "done"
    /\ UNCHANGED <<phonebook, email_list, lookups, lpos, ldetails, llog>>
    /\ UNCHANGED <<rvars, dvars, svars, uvars, wvars, jvars, tvars>>

NextLookup == LookupEmail \/ LookupReturn

SpecLookup == InitLookup /\ [][NextLookup]_vars

-----------------------------------------------------------------------------
(* clean_df called on its own *)

MaxColumns == 3

\* column labels: A, A_new, A_old, B_old, _newsletter, C_older
CleanLabels ==
    <<<<"A">>, <<"A", "_new">>, <<"A", "_old">>, <<"B", "_old">>,
      <<"_new", "sletter">>, <<"C", "_old", "er">>>>

\* frames of one row whose columns are distinct labels
CleanFrames ==
    {[columns |-> cols, rows |-> <<[i \in 1..Len(cols) |-> ToString(i)]>>] :
        cols \in {c \in UNION {[1..n -> Range(CleanLabels)] : n \in 1..MaxColumns} :
                    \A i, j \in 1..Len(c) : c[i] = c[j] => i = j}}

\* drop_columns: the lists of at most two labels, in the order of CleanLabels
DropLists ==
    {SelectSeq(CleanLabels, LAMBDA l : l \in ls) :
        ls \in {x \in SUBSET Range(CleanLabels) : Cardinality(x) <= 2}}

InitClean ==
    /\ cl_df \in CleanFrames
    /\ cl_drop_columns \in DropLists
    /\ cl_permuted_columns \in {None, List(<<<<"A">>>>)}
    /\ cl_result = None
    /\ clpc = "call"
    /\ search_df = None /\ search_list = <<>> /\ spos = 0
    /\ filtered_df = None /\ spc = "idle"
    /\ SinkIdle /\ UpdaterIdle /\ WriteIdle /\ JmailerIdle /\ LookupIdle
    /\ ReconcileIdle /\ DetailsIdle

\* one call of clean_df with the pattern of update_dataframe_conditionally
CleanCall ==
    /\ clpc = "call"
    /\ cl_result' = clean_df(cl_df, cl_drop_columns, Join(SUFFIXES),
                             cl_permuted_columns)
    /\ clpc' = "done"
    /\ UNCHANGED <<cl_df, cl_drop_columns, cl_permuted_columns>>
    /\ UNCHANGED <<search_df, search_list, spos, filtered_df, spc>>
    /\ UNCHANGED <<rvars, dvars, svars, uvars, wvars, jvars, lvars>>

SpecClean == InitClean /\ [][CleanCall]_vars

-----------------------------------------------------------------------------
(* Searchers.search_df_rows (src/jmailer/tools.py)                           *)
(* A string is the sequence of its characters.                               *)

MaxSearchRows == 2
MaxTerms == 2

\* a local variable that no statement has assigned
Unbound == [py |-> "unbound"]

\* PATTERN of line 110: the characters re.sub removes
PATTERN == {"_", " ", "-", ":", "/", ".", "@"}

\* str.lower on the letters that occur
lower(s) ==
    [i \in 1..Len(s) |->
        IF s[i] = "A" THEN "a" ELSE IF s[i] = "B" THEN "b"
        ELSE IF s[i] = "N" THEN "n" ELSE s[i]]

\* format_string, lines 110-114
format_string(s) == lower(SelectSeq(s, LAMBDA c : c \notin PATTERN))

\* search_string, line 95: search in str(s).lower()
search_string(s, search) ==
    \E i \in 0..(Len(s) - Len(search)) :
        SubSeq(lower(s), i + 1, i + Len(search)) = search

\* df.applymap(format_string)
Formatted(frame) ==
    [columns |-> frame.columns,
     rows |-> [r \in 1..Len(frame.rows) |->
                 [c \in 1..Len(frame.rows[r]) |-> format_string(frame.rows[r][c])]]]

\* lines 122-125 for one term: the rows of the unformatted frame at the
\* positions where the mask of the formatted frame has a True
Filtered(frame, formatted, search) ==
    LET mask == SelectSeq([r \in 1..Len(formatted.rows) |-> r],
                    LAMBDA r : \E c \in 1..Len(formatted.rows[r]) :
                        search_string(formatted.rows[r][c], format_string(search)))
    IN  [columns |-> frame.columns,
         rows |-> [k \in 1..Len(mask) |-> frame.rows[mask[k]]]]

\* frames of two columns whose cells are "Ann", "a@x" or "b.B"
SearchFrames ==
    LET cells == {<<"A", "n", "n">>, <<"a", "@", "x">>, <<"b", ".", "B">>}
    IN  {[columns |-> <<<<"FIRST_NAME">>, EMAIL>>, rows |-> rs] :
            rs \in UNION {[1..n -> cells \X cells] : n \in 0..MaxSearchRows}}

\* search lists of the terms "AN", "ax", "bb" and "n@"
SearchLists ==
    UNION {[1..n -> {<<"A", "N">>, <<"a", "x">>, <<"b", "b">>, <<"n", "@">>}] :
              n \in 0..MaxTerms}

InitSearch ==
    /\ search_df \in SearchFrames
    /\ search_list \in SearchLists
    /\ spos = 0
    /\ filtered_df = Unbound
    /\ spc = "loop"
    /\ cl_df = None /\ cl_drop_columns = <<>> /\ cl_permuted_columns = None
    /\ cl_result = None /\ clpc = "idle"
    /\ SinkIdle /\ UpdaterIdle /\ WriteIdle /\ JmailerIdle /\ LookupIdle
    /\ ReconcileIdle /\ DetailsIdle

\* one iteration of the loop of lines 121-125
SearchTerm ==
    /\ spc = "loop"
    /\ spos < Len(search_list)
    /\ filtered_df' = Filtered(search_df, Formatted(search_df), search_list[spos + 1])
    /\ spos' = spos + 1
    /\ UNCHANGED <<search_df, search_list, spc>>
    /\ UNCHANGED <<cl_df, cl_drop_columns, cl_permuted_columns, cl_result, clpc>>
    /\ UNCHANGED <<rvars, dvars, svars, uvars, wvars, jvars, lvars>>

\* line 126: return filtered_df; UnboundLocalError when the loop never ran
SearchReturn ==
    /\ spc = "loop"
    /\ spos = Len(search_list)
    /\ spc' = IF filtered_df = Unbound THEN "raised" ELSE "done"
    /\ UNCHANGED <<search_df, search_list, spos, filtered_df>>
    /\ UNCHANGED <<cl_df, cl_drop_columns, cl_permuted_columns, cl_result, clpc>>
    /\ UNCHANGED <<rvars, dvars, svars, uvars, wvars, jvars, lvars>>

NextSearch == SearchTerm \/ SearchReturn

SpecSearch == InitSearch /\ [][NextSearch]_vars

-----------------------------------------------------------------------------
(* A chain of reconciliations: each returned table is the original_df of     *)
(* the next call                                                             *)

MaxChainRows == 2

\* the stored table before the first call and the batches of the calls: at
\* most one row
ChainTables(values) ==
    {[columns |-> Schema, rows |-> rs] :
        rs \in {<<>>} \cup {<<<<e, l, f>>>> : e \in Emails, l \in values, f \in values}}

InitChain ==
    /\ new_df \in ChainTables({NaN, "2024-06-01"})
    /\ original_df \in ChainTables({NaN, "2024-01-01"})
    /\ \E c \in {k \in Configs : k.update # <<>>} :
        /\ merge_columns = c.merge
        /\ fixed_columns = c.fixed
        /\ update_columns = c.update
        /\ sort_by = c.sort_by
        /\ ascending = c.ascending
    /\ new_data = None /\ no_change_data = None /\ update_data = None
    /\ updated_df = None
    /\ rpc = "call"
    /\ DetailsIdle
    /\ CallersIdle

\* the returned table is stored and reconciled with the next batch
ChainFeed ==
    /\ rpc = "done"
    /\ IsFrame(updated_df)
    /\ Len(updated_df.rows) <= MaxChainRows
    /\ original_df' = updated_df
    /\ new_df' \in ChainTables({NaN, "2024-06-01"})
    /\ new_data' = None /\ no_change_data' = None /\ update_data' = None
    /\ updated_df' = None
    /\ rpc' = "call"
    /\ UNCHANGED <<merge_columns, fixed_columns, update_columns, sort_by, ascending>>
    /\ UNCHANGED <<dvars, cvars>>

NextChain == Reconcile \/ ChainFeed

SpecChain == InitChain /\ [][NextChain]_vars

-----------------------------------------------------------------------------
(* Properties of update_dataframe_conditionally (SpecReconcile) *)

Reconciled == rpc = "done" /\ IsFrame(updated_df)

FrameKeys(frame) ==
    {KeyOf(frame.columns, frame.rows[i], merge_columns) : i \in 1..Len(frame.rows)}

\* A: keys only in new_rows, B: keys only in original_rows, C: keys in both
KeysA == FrameKeys(new_df) \ FrameKeys(original_df)
KeysB == FrameKeys(original_df) \ FrameKeys(new_df)
KeysC == FrameKeys(new_df) \cap FrameKeys(original_df)

\* the value of column c in the row of frame that carries key k
ValueAt(frame, k, c) ==
    LET i == CHOOSE i \in 1..Len(frame.rows) :
                 KeyOf(frame.columns, frame.rows[i], merge_columns) = k
    IN frame.rows[i][Positions(frame.columns, c)[1]]

\* every key of the set once in the frame, and no other key
HoldsExactly(frame, keys) ==
    /\ IsFrame(frame)
    /\ FrameKeys(frame) = keys
    /\ Len(frame.rows) = Cardinality(keys)

\* C1: the output has |A| + |B| + |C| rows and no two rows share a merge key.
C1_RowCount ==
    Reconciled =>
        /\ Len(updated_df.rows)
             = Cardinality(KeysA) + Cardinality(KeysB) + Cardinality(KeysC)
        /\ \A i, j \in 1..Len(updated_df.rows) :
              KeyOf(updated_df.columns, updated_df.rows[i], merge_columns)
                = KeyOf(updated_df.columns, updated_df.rows[j], merge_columns)
              => i = j

\* C2: every output row of a key present in both tables carries, in every
\* fixed column, the value of the original row.
C2_FixedPreserved ==
    Reconciled =>
        \A i \in 1..Len(updated_df.rows) :
            LET k == KeyOf(updated_df.columns, updated_df.rows[i], merge_columns)
            IN k \in KeysC =>
                \A f \in Range(fixed_columns) :
                    \A p \in Range(Positions(updated_df.columns, f)) :
                        updated_df.rows[i][p] = ValueAt(original_df, k, f)

\* C3: every output row of a key present in both tables carries, in every
\* update column, the value of the new row.
C3_UpdateOverwritten ==
    Reconciled =>
        \A i \in 1..Len(updated_df.rows) :
            LET k == KeyOf(updated_df.columns, updated_df.rows[i], merge_columns)
            IN k \in KeysC =>
                \A u \in Range(update_columns) :
                    \A p \in Range(Positions(updated_df.columns, u)) :
                        updated_df.rows[i][p] = ValueAt(new_df, k, u)

\* C4: reconciling a table against itself returns the table, and every row
\* is in the unchanged bucket.
C4_SelfReconcile ==
    (rpc = "done" /\ new_df = original_df) =>
        /\ updated_df = original_df
        /\ no_change_data = original_df
        /\ IsFrame(new_data) /\ new_data.rows = <<>>
        /\ IsFrame(update_data) /\ update_data.rows = <<>>

\* C5: the new bucket holds exactly the keys only in new_rows, the unchanged
\* bucket exactly the keys only in original_rows, the updated bucket exactly
\* the keys in both, whatever the rows contain.
C5_BucketsByKey ==
    rpc = "done" =>
        /\ HoldsExactly(new_data, KeysA)
        /\ HoldsExactly(no_change_data, KeysB)
        /\ HoldsExactly(update_data, KeysC)

\* C6: the returned table and the three buckets have exactly the columns of
\* original_rows, each once and in the original order.
C6_OriginalColumns ==
    rpc = "done" =>
        /\ IsFrame(updated_df) /\ updated_df.columns = original_df.columns
        /\ IsFrame(new_data) /\ new_data.columns = original_df.columns
        /\ IsFrame(no_change_data) /\ no_change_data.columns = original_df.columns
        /\ IsFrame(update_data) /\ update_data.columns = original_df.columns

\* C7: when sort_by is given the returned table is sorted by it, descending
\* unless ascending is set.
C7_Sorted ==
    (Reconciled /\ sort_by # None) =>
        LET ps == [n \in 1..Len(sort_by.items) |->
                     Positions(updated_df.columns, sort_by.items[n])[1]]
            key(i) == [n \in 1..Len(ps) |-> updated_df.rows[i][ps[n]]]
        IN \A i, j \in 1..Len(updated_df.rows) :
              i < j => ~KeyBefore(key(j), key(i), ascending)

-----------------------------------------------------------------------------
(* Properties of details_to_df (SpecDetails) *)

WellFormed(d) == \A i \in 1..Len(d) : d[i][2] \in WellFormedDetails

\* C8: for a non-empty mapping of well-formed details the returned table has
\* one row per entry: EMAIL the key, the names and the company those of the
\* detail, the empty string when absent.
C8_OneRowPerEntry ==
    (dpc = "done" /\ Len(data) > 0 /\ WellFormed(data)) =>
        /\ IsFrame(df)
        /\ Len(df.rows) = Len(data)
        /\ \A i \in 1..Len(data) :
              /\ df.rows[i][4] = data[i][1]
              /\ df.rows[i][2] = Get(data[i][2], "first_name", "")
              /\ df.rows[i][3] = Get(data[i][2], "last_name", "")
              /\ df.rows[i][5] = Get(data[i][2], "company_name", "")

\* C9: in every record built, CREATEDATETIME, FIRST_OUTREACH and
\* LAST_OUTREACH are equal.
C9_DatesEqual ==
    \A i \in 1..Len(json_data) :
        /\ json_data[i].CREATEDATETIME = json_data[i].FIRST_OUTREACH
        /\ json_data[i].CREATEDATETIME = json_data[i].LAST_OUTREACH

\* C10: a failing entry never makes the call raise; at the end of the loop
\* every entry whose detail fails is logged with its key and has no record,
\* and every other entry has its record.
C10_FailureIsolated ==
    /\ dpc # "raised"
    /\ \A i \in 1..pos :
          IF HasGet(data[i][2])
          THEN /\ \E n \in 1..Len(json_data) : json_data[n].EMAIL = data[i][1]
               /\ \A n \in 1..Len(log) : log[n].key # data[i][1]
          ELSE /\ \E n \in 1..Len(log) : log[n].key = data[i][1]
               /\ \A n \in 1..Len(json_data) : json_data[n].EMAIL # data[i][1]
    /\ dpc = "done" => pos = Len(data)

\* a batch whose first entry fails and whose second entry is recorded
C10_Witness ==
    /\ dpc = "done"
    /\ Len(data) = 2
    /\ data[1][2] = None
    /\ HasGet(data[2][2])
    /\ Len(log) = 1 /\ log[1].key = data[1][1]
    /\ Len(json_data) = 1 /\ json_data[1].EMAIL = data[2][1]

-----------------------------------------------------------------------------
(* Properties of db_contacts_updater and write_to_googlesheets (SpecSink) *)

\* the batch is empty or every one of its entries fails
AllFail(d) == \A i \in 1..Len(d) : ~HasGet(d[i][2])

\* the run has left line 381
Decided(r) == upc[r] \in {"write", "done", "raised"}

Finished(r) == upc[r] \in {"done", "raised"}

\* the run that is not r
Other(r) == CHOOSE q \in Runs : q # r

WriteOps == {"clear", "resize", "set_dataframe"}

\* the calls of run r that change the worksheet
WritesOf(r) == SelectSeq(OpsOf(r), LAMBDA op : op \in WriteOps)

Count(ops, op) == Len(SelectSeq(ops, LAMBDA o : o = op))

\* C11: a run of db_contacts_updater whose batch is empty, or whose entries
\* all fail, gets None from details_to_df, reports "No new data to update!",
\* returns, and makes no clear, resize or set_dataframe call on the sink.
C11_EmptyBatchNoWrite ==
    \A r \in Runs :
        (Decided(r) /\ AllFail(details[r])) =>
            /\ upd_new_data[r] = None
            /\ upc[r] = "done"
            /\ \E n \in 1..Len(ulog) :
                  ulog[n] = [run |-> r, msg |-> "No new data to update!"]
            /\ WritesOf(r) = <<>>

\* one run got the empty mapping, the other a batch whose entry fails; both
\* have returned and the sink was only read
C11_Witness ==
    /\ upc = [r \in Runs |-> "done"]
    /\ details[1] = <<>>
    /\ Len(details[2]) > 0 /\ AllFail(details[2])
    /\ Len(stored.rows) > 0
    /\ Len(calls) = 2

\* C12: a single run of db_contacts_updater on a non-empty batch of
\* well-formed details returns normally, having read the table once and
\* written the reconciled table once, the read before the write.
C12_ReadReconcileWriteOnce ==
    \A r \in Runs :
        (/\ Finished(r)
         /\ upc[Other(r)] = "idle"
         /\ Len(details[r]) > 0
         /\ WellFormed(details[r])) =>
            /\ upc[r] = "done"
            /\ Count(OpsOf(r), "get_as_df") = 1
            /\ Count(OpsOf(r), "set_dataframe") = 1
            /\ OpsOf(r)[1] = "get_as_df"
            /\ IsFrame(updated_data[r])
            /\ stored = updated_data[r]

\* a configured fixed or update column that the frame does not carry
Missing(frame, c) ==
    \E x \in Range(c.fixed \o c.update) : x \notin Range(frame.columns)

IsPrefix(a, b) == Len(a) <= Len(b) /\ a = SubSeq(b, 1, Len(a))

\* C17: in every call of write_to_googlesheets the calls on the worksheet are
\* clear, then resize, then set_dataframe, in this order and each at most
\* once; resize is called exactly when the frame has more rows than the
\* worksheet had when line 141 read its row count, and it sets the row count
\* to the number of rows of the frame.
C17_ClearResizeSet ==
    \A r \in Runs :
        /\ \/ IsPrefix(WritesOf(r), <<"clear", "resize", "set_dataframe">>)
           \/ IsPrefix(WritesOf(r), <<"clear", "set_dataframe">>)
        /\ wpc[r] = "resize" => WritesOf(r) = <<"clear">>
        /\ wpc[r] \in {"set", "done", "raised"} =>
              ("resize" \in Range(WritesOf(r)) <=> Len(df0[r].rows) > seen_rows[r])
        /\ wpc[r] \in {"done", "raised"} =>
              WritesOf(r)[Len(WritesOf(r))] = "set_dataframe"
        /\ (wpc[r] = "set" /\ "resize" \in Range(WritesOf(r)) /\ wpc[Other(r)] = "idle")
              => wks_rows = Len(df0[r].rows)

\* a call that cleared, grew the worksheet and wrote
C17_Witness ==
    /\ wpc[1] = "done"
    /\ wpc[2] = "idle"
    /\ OpsOf(1) = <<"clear", "resize", "set_dataframe">>
    /\ Len(df0[1].rows) > seen_rows[1]
    /\ stored = df0[1]

\* the keys of a batch
BatchKeysOf(d) == {d[i][1] : i \in 1..Len(d)}

\* the position in calls of the set_dataframe call of run r (0: none)
WrotePos(r) ==
    IF \E i \in 1..Len(calls) : calls[i] = Call("set_dataframe", r)
    THEN CHOOSE i \in 1..Len(calls) : calls[i] = Call("set_dataframe", r)
    ELSE 0

\* C18: when two runs with non-empty, well-formed batches of different keys
\* both read the table before either writes, and both return, each has
\* written the table once and the stored table is that of the run that wrote
\* last: it holds the keys of that run's batch and lacks those of the run
\* that wrote first.
C18_LastWriterWins ==
    (/\ upc = [r \in Runs |-> "done"]
     /\ \A r \in Runs : Len(details[r]) > 0 /\ WellFormed(details[r])
     /\ BatchKeysOf(details[1]) \cap BatchKeysOf(details[2]) = {}
     /\ Len(calls) >= 2
     /\ calls[1].op = "get_as_df" /\ calls[2].op = "get_as_df"
     /\ calls[1].run # calls[2].run
     /\ EMAIL \in Range(upd_original_df[1].columns)) =>
        \E first \in Runs :
            /\ WrotePos(first) > 0
            /\ WrotePos(Other(first)) > WrotePos(first)
            /\ EMAIL \in Range(stored.columns)
            /\ BatchKeysOf(details[Other(first)]) \subseteq Range(existing_emails(stored))
            /\ BatchKeysOf(details[first]) \cap Range(existing_emails(stored)) = {}

-----------------------------------------------------------------------------
(* Properties of jmailer (SpecJmailer) *)

\* the addresses sendmail was given
Emailed == UNION {Range(outbox[i].to) : i \in 1..Len(outbox)}

\* C13: at the end of a run in which the send was confirmed and test mode is
\* off, every address that was emailed is in the EMAIL column of the stored
\* table.
C13_EmailedRecorded ==
    (jpc = "end" /\ confirm_send = "y" /\ ~test_mode) =>
        /\ EMAIL \in Range(stored.columns)
        /\ Emailed \subseteq Range(existing_emails(stored))

\* C16: the database update step never ends the run with an exception and is
\* entered at most once: after it the run is at its normal end, and when the
\* step was entered and raised, the exception is in the log.
C16_UpdateErrorCaught ==
    /\ db_calls <= 1
    /\ jpc = "crashed" => db_calls = 0
    /\ db_calls = 1 =>
          /\ jpc = "end"
          /\ jlog[Len(jlog)] =
                [msg |-> "Something went wrong with writing to the db. ",
                 e |-> CallException(Parameters, Arguments)]

\* a confirmed send out of test mode: the update step ran once, raised, and
\* the run ended normally with the exception logged
C16_Witness ==
    /\ jpc = "end"
    /\ confirm_send = "y" /\ ~test_mode
    /\ Len(outbox) > 0
    /\ db_calls = 1
    /\ jlog[Len(jlog)].e = "TypeError"

\* C19: after cross_check_emails, reduced_recipients is the recipients that
\* are not in the EMAIL column of the stored table and repeated_recipients
\* those that are, each in the order of recipients; no address is in both and
\* every recipient is in one of them.
C19_CrossCheckSplits ==
    jpc = "exclude" =>
        /\ reduced_recipients =
              SelectSeq(recipients,
                        LAMBDA x : \A i \in 1..Len(stored.rows) :
                            stored.rows[i][Positions(stored.columns, EMAIL)[1]] # x)
        /\ repeated_recipients =
              SelectSeq(recipients,
                        LAMBDA x : \E i \in 1..Len(stored.rows) :
                            stored.rows[i][Positions(stored.columns, EMAIL)[1]] = x)
        /\ Range(reduced_recipients) \cap Range(repeated_recipients) = {}
        /\ Range(reduced_recipients) \cup Range(repeated_recipients) = Range(recipients)
        /\ Len(reduced_recipients) + Len(repeated_recipients) = Len(recipients)

\* a list of two recipients, one of them stored, split into two lists of one
C19_Witness ==
    /\ jpc = "exclude"
    /\ Len(recipients) = 2
    /\ Len(reduced_recipients) = 1
    /\ Len(repeated_recipients) = 1

\* C20 (as stated): in test mode every sendmail call has the recipient list
\* [sender] and no address of the recipients list receives a message.
C20_TestModeNoRecipient ==
    test_mode =>
        /\ \A i \in 1..Len(outbox) : outbox[i].to = <<sender>>
        /\ \A a \in Range(recipients) : a \notin Emailed

\* C20 (amended): in test mode every sendmail call has the recipient list
\* [sender], so no address other than the sender's receives a message; the
\* sender receives one message per entry of the recipients list, also when
\* the sender is one of the recipients.
C20_TestModeSenderOnly ==
    test_mode =>
        /\ \A i \in 1..Len(outbox) : outbox[i].to = <<sender>>
        /\ \A a \in Range(recipients) : a # sender => a \notin Emailed
        /\ jpc \in {"db", "end"} /\ confirm_send = "y" => Len(outbox) = Len(recipients)

\* a confirmed test-mode run to two recipients other than the sender
C20_Witness ==
    /\ test_mode
    /\ jpc = "end"
    /\ Len(recipients) = 2
    /\ sender \notin Range(recipients)
    /\ Len(outbox) = 2

-----------------------------------------------------------------------------
(* Properties of get_details_from_email_list (SpecLookup) *)

\* C14: the call never raises; when it returns, every email whose lookup
\* found a record has its details, and every email whose lookup failed is in
\* the log.
C14_LookupIsolated ==
    /\ lpc # "raised"
    /\ lpc = "done" =>
          \A i \in 1..Len(email_list) :
              IF lookups[i] = "found"
              THEN \E n \in 1..Len(ldetails) : ldetails[n][1] = email_list[i]
              ELSE \E n \in 1..Len(llog) : llog[n].email = email_list[i]

-----------------------------------------------------------------------------
(* Properties of clean_df (SpecClean) *)

\* a label without its trailing _new or _old
StripTrailing(label) ==
    IF label # <<>> /\ label[Len(label)] \in Range(SUFFIXES)
    THEN SubSeq(label, 1, Len(label) - 1)
    ELSE label

\* C21: clean_df without a column order returns the frame without the
\* columns of drop_columns, every remaining column under its own name less a
\* trailing _new or _old, a name that does not end in one of them unchanged.
C21_DropAndRename ==
    (/\ clpc = "done"
     /\ cl_permuted_columns = None
     /\ Range(cl_drop_columns) \subseteq Range(cl_df.columns)) =>
        /\ IsFrame(cl_result)
        /\ cl_result.columns =
              [i \in 1..Len(Drop(cl_df, cl_drop_columns).columns) |->
                  StripTrailing(Drop(cl_df, cl_drop_columns).columns[i])]
        /\ cl_result.rows = Drop(cl_df, cl_drop_columns).rows

-----------------------------------------------------------------------------
(* Properties of the de-conflict step (SpecSink) *)

\* C22: update_dataframe_conditionally called with update columns that
\* include merge columns returns what it returns when called with the merge
\* columns taken out of the update columns.
C22_Deconflicted ==
    rpc = "done" =>
        updated_df =
            update_dataframe_conditionally(
                new_df, original_df, merge_columns, fixed_columns,
                SelectSeq(update_columns, LAMBDA c : \A m \in 1..Len(merge_columns) :
                                              merge_columns[m] # c),
                sort_by, ascending).updated_df

\* the merge column is among the update columns, both tables hold a row of
\* the same key, and a table of that one key is returned
C22_Witness ==
    /\ rpc = "done"
    /\ EMAIL \in Range(update_columns) /\ EMAIL \in Range(merge_columns)
    /\ Len(new_df.rows) = 1 /\ Len(original_df.rows) = 1
    /\ new_df.columns = Schema /\ original_df.columns = Schema
    /\ IsFrame(updated_df)
    /\ Len(updated_df.rows) >= 1

-----------------------------------------------------------------------------
(* Properties of search_df_rows (SpecSearch) *)

\* the string s has the substring t
Contains(s, t) ==
    \E i \in 1..(Len(s) - Len(t) + 1) : \A k \in 1..Len(t) : s[i + k - 1] = t[k]

\* C23: for a search list of any length the call returns the rows, as they
\* are in the frame, in which some cell, normalised, contains some term of the
\* list, normalised.
C23_RowsMatchingAnyTerm ==
    spc = "done" =>
        /\ IsFrame(filtered_df)
        /\ filtered_df.rows =
              SelectSeq(search_df.rows,
                  LAMBDA row : \E c \in 1..Len(row) : \E t \in 1..Len(search_list) :
                      Contains(format_string(row[c]), format_string(search_list[t])))

-----------------------------------------------------------------------------
(* Properties of a chain of reconciliations (SpecChain) *)

\* the rows of the frame that carry the merge key k
RowsOf(frame, k) ==
    SelectSeq(frame.rows, LAMBDA row : KeyOf(frame.columns, row, merge_columns) = k)

\* the values of the fixed columns in a row
FixedOf(frame, row) ==
    [n \in 1..Len(fixed_columns) |-> row[Positions(frame.columns, fixed_columns[n])[1]]]

\* C24: in every reconciliation of the chain each merge key of the stored
\* table is in the returned table, and every row of that key in the returned
\* table carries fixed-column values the key had in the stored table.
C24_KeysAndFixedKept ==
    (rpc = "done" /\ IsFrame(updated_df)) =>
        \A k \in FrameKeys(original_df) :
            /\ RowsOf(updated_df, k) # <<>>
            /\ \A i \in 1..Len(RowsOf(updated_df, k)) :
                  \E j \in 1..Len(RowsOf(original_df, k)) :
                      FixedOf(updated_df, RowsOf(updated_df, k)[i])
                        = FixedOf(original_df, RowsOf(original_df, k)[j])

-----------------------------------------------------------------------------
(* Properties of the order of steps in jmailer (SpecJmailer) *)

\* C25: sendmail is called only after the operator answered "y"; the update
\* of the database is entered only when the send was confirmed and test mode
\* is off, and by then every recipient has had its sendmail call, after which
\* none follows.
C25_SendAndUpdateGuarded ==
    /\ Len(outbox) > 0 => confirm_send = "y"
    /\ db_calls > 0 =>
          /\ confirm_send = "y"
          /\ ~test_mode
          /\ sent_to = Len(recipients)
          /\ Len(outbox) = Len(recipients)
          /\ jpc = "end"

\* two different recipients were emailed, then the update was entered
C25_Witness ==
    /\ db_calls = 1
    /\ Len(recipients) = 2 /\ recipients[1] # recipients[2]
    /\ Len(outbox) = 2
    /\ outbox[1].to = <<recipients[1]>> /\ outbox[2].to = <<recipients[2]>>

====
